---- MODULE Spec2Model ----
(***************************************************************************)
(* Model of eqcutil.core.clusteringtribe.ClusteringTribe and of            *)
(* eqcutil.core.load_from_bank.generate_clustering_tribe_from_banks.       *)
(*                                                                         *)
(* A ClusteringTribe instance is a record                                  *)
(*   templates : the list Tribe.templates (Template Index)                 *)
(*   clusters  : the pandas DataFrame self.clusters (Membership Table)     *)
(*   kw        : a reference to the dict self.cluster_kwargs               *)
(*   dist_mat  : self.dist_mat (Distance Matrix), possibly None            *)
(* Dicts live in a heap because get_subset shares the parent's dict.       *)
(* Template names are sequences of one-character strings so that the       *)
(* string operations of _deduplicate_name can be computed.                 *)
(***************************************************************************)
EXTENDS Integers, Sequences, FiniteSets, TLC

VARIABLES ct, sub, sub2, loaded, heap, arc, npy_file, dirs, last, steps

vars == <<ct, sub, sub2, loaded, heap, arc, npy_file, dirs, last, steps>>

-----------------------------------------------------------------------------
(* Bounds of the exploration *)

MaxTemplates == 3

MaxSteps == 3

-----------------------------------------------------------------------------
(* Generic helpers *)

Range(s) == {s[i] : i \in 1..Len(s)}

NoDup(s) == \A i, j \in 1..Len(s) : s[i] = s[j] => i = j

IsPrefix(p, s) == Len(p) <= Len(s) /\ SubSeq(s, 1, Len(p)) = p

\* `d in s` for Python strings
IsSubstr(d, s) == \E i \in 1..(Len(s) + 1) :
    i + Len(d) - 1 <= Len(s) /\ SubSeq(s, i, i + Len(d) - 1) = d

RECURSIVE Concat(_)
Concat(ss) == IF ss = <<>> THEN <<>> ELSE Head(ss) \o Concat(Tail(ss))

\* pandas / numpy NaN, kept apart from every id and every group number
NaN == -1

Digits == <<"0", "1", "2", "3", "4", "5", "6", "7", "8", "9">>

\* f'{start}' for a non-negative int
RECURSIVE Str(_)
Str(k) == IF k < 10 THEN <<Digits[k + 1]>>
          ELSE Str(k \div 10) \o <<Digits[(k % 10) + 1]>>

-----------------------------------------------------------------------------
(* Templates: eqcorrscan.Template reduced to its name and its waveform     *)
(* payload st (an identifier of the stream's content).  Python objects     *)
(* that are not Templates carry another type tag.                          *)

Tpl(n, s) == [type |-> "Template", name |-> n, st |-> s]

NameA == <<"a">>
NameB == <<"b">>
NameA0 == <<"a", "-", "0">>

TplA == Tpl(NameA, 1)
TplB == Tpl(NameB, 2)
TplA0 == Tpl(NameA0, 3)

NotATemplate == [type |-> "str", name |-> <<>>, st |-> 0]

PoolTemplates == {TplA, TplB, TplA0}

isTemplate(x) == x.type = "Template"

\* The delimiters callers pass to add_template(..., delimiter=...)
DefaultDelimiter == <<"_", "_">>
Delimiters == {DefaultDelimiter, <<"-">>}

-----------------------------------------------------------------------------
(* The Membership Table: a DataFrame as a column set and a list of rows,   *)
(* each row an index label and one cell per column.                        *)

Row(n, cols, f) == [name |-> n, cell |-> [c \in cols |-> f[c]]]

EmptyFrame == [cols |-> {"id_no"}, rows |-> <<>>]

RowNames(cl) == [i \in 1..Len(cl.rows) |-> cl.rows[i].name]

IndexValues(cl) == Range(RowNames(cl))

\* re-express a row over a larger column set, NaN where it had no cell
Widen(r, cols) ==
    [name |-> r.name,
     cell |-> [c \in cols |-> IF c \in DOMAIN r.cell THEN r.cell[c] ELSE NaN]]

\* pd.concat([a, b], axis=0, ignore_index=False)
ConcatRows(a, b) ==
    LET cols == a.cols \cup b.cols
    IN [cols |-> cols,
        rows |-> [i \in 1..(Len(a.rows) + Len(b.rows)) |->
                    IF i <= Len(a.rows) THEN Widen(a.rows[i], cols)
                    ELSE Widen(b.rows[i - Len(a.rows)], cols)]]

\* DataFrame.drop(labels=label): a NEW frame without the rows of that label
Drop(cl, label) ==
    [cl EXCEPT !.rows = SelectSeq(cl.rows, LAMBDA r : r.name # label)]

\* frame[frame.index.isin(names)]
RowsIsin(cl, names) ==
    [cl EXCEPT !.rows = SelectSeq(cl.rows, LAMBDA r : r.name \in names)]

-----------------------------------------------------------------------------
(* Instances *)

NoMat == [present |-> FALSE, m |-> <<>>]

NewInstance(ref) ==
    [templates |-> <<>>, clusters |-> EmptyFrame, kw |-> ref, dist_mat |-> NoMat]

TemplateNames(inst) == [i \in 1..Len(inst.templates) |-> inst.templates[i].name]

Ok(inst) == [inst |-> inst, err |-> "none"]

Raise(inst, e) == [inst |-> inst, err |-> e]

-----------------------------------------------------------------------------
(* _deduplicate_name *)

\* other.split('__')[0]: the text before the first '__' (all of it if none)
SplitFirst(s) ==
    LET hits == {i \in 1..Len(s) : i + 1 <= Len(s) /\ SubSeq(s, i, i + 1) = <<"_", "_">>}
    IN IF hits = {} THEN s
       ELSE SubSeq(s, 1, (CHOOSE i \in hits : \A j \in hits : i <= j) - 1)

\* fnmatch.filter(values, basename + '*') for names without glob characters
FnmatchFilter(values, basename) == {v \in values : IsPrefix(basename, v)}

RECURSIVE DedupLoop(_, _, _, _)
DedupLoop(basename, delimiter, start, matches) ==
    IF (basename \o delimiter \o Str(start)) \in matches
    THEN DedupLoop(basename, delimiter, start + 1, matches)
    ELSE basename \o delimiter \o Str(start)

DeduplicateName(cl, other, delimiter, start) ==
    IF other \notin IndexValues(cl) THEN other
    ELSE LET basename == IF ~IsSubstr(delimiter, other) THEN other
                         ELSE SplitFirst(other)
             matches == FnmatchFilter(IndexValues(cl), basename)
         IN DedupLoop(basename, delimiter, start, matches)

-----------------------------------------------------------------------------
(* add_template, remove, extend, __init__ *)

AddTemplate(inst, other, rename_duplicates, delimiter) ==
    IF ~isTemplate(other) THEN Raise(inst, "TypeError")
    ELSE IF other.name \in IndexValues(inst.clusters) /\ ~rename_duplicates
    THEN Raise(inst, "AttributeError")
    ELSE LET nm == IF other.name \in IndexValues(inst.clusters)
                   THEN DeduplicateName(inst.clusters, other.name, delimiter, 0)
                   ELSE other.name
             tpls == Append(inst.templates, [other EXCEPT !.name = nm])
             newrow == [cols |-> {"id_no"},
                        rows |-> <<Row(nm, {"id_no"}, [id_no |-> Len(tpls) - 1])>>]
         IN Ok([inst EXCEPT !.templates = tpls,
                            !.clusters = ConcatRows(inst.clusters, newrow)])

\* Tribe.remove: self.templates = [t for t in self.templates if t != template]
TribeRemove(inst, template) ==
    [inst EXCEPT !.templates = SelectSeq(inst.templates, LAMBDA t : t # template)]

\* The frame DataFrame.drop returns is discarded: self.clusters is not assigned.
Remove(inst, template) ==
    IF template \notin Range(inst.templates) THEN Ok(inst)
    ELSE IF template.name \notin IndexValues(inst.clusters)
    THEN Raise(inst, "KeyError")
    ELSE LET dropped == Drop(inst.clusters, template.name)
         IN Ok(TribeRemove(inst, template))

\* for template in other: self.add_template(template, **options)
\* stops at the first exception and keeps what was added before it
RECURSIVE AddEach(_, _, _, _)
AddEach(inst, items, rename_duplicates, delimiter) ==
    IF items = <<>> THEN Ok(inst)
    ELSE LET r == AddTemplate(inst, Head(items), rename_duplicates, delimiter)
         IN IF r.err # "none" THEN r
            ELSE AddEach(r.inst, Tail(items), rename_duplicates, delimiter)

\* other = [kind, items]; kind is "Template", "Tribe", "list" (any other object
\* with __iter__) or "scalar" (no __iter__)
Extend(inst, other, rename_duplicates, delimiter) ==
    IF other.kind = "Template"
    THEN AddTemplate(inst, other.items[1], rename_duplicates, delimiter)
    ELSE IF other.kind = "Tribe"
    THEN AddEach(inst, other.items, rename_duplicates, delimiter)
    ELSE IF other.kind = "list"
    THEN IF \A i \in 1..Len(other.items) : isTemplate(other.items[i])
         THEN \* the loop variable is `tempate`; `template` is an unbound local
              IF other.items # <<>> THEN Raise(inst, "UnboundLocalError")
              ELSE Ok(inst)
         ELSE Ok(inst)
    ELSE Ok(inst)

\* ClusteringTribe(templates=[...]) on a list of Templates
Construct(ref, templates) ==
    IF \E i \in 1..Len(templates) : ~isTemplate(templates[i])
    THEN Raise(NewInstance(ref), "TypeError")
    ELSE AddEach(NewInstance(ref), templates, FALSE, DefaultDelimiter)

-----------------------------------------------------------------------------
(* Keyword parameters.  A value keeps its Python type t, its text as      *)
(* str()/repr() print it (txt, with "num" standing for a numeric literal) *)
(* and its magnitude n when it is a number.                                *)

Val(t, txt, n) == [t |-> t, txt |-> txt, n |-> n]

PyTrue == Val("bool", "True", 0)
PyFalse == Val("bool", "False", 0)
PyNone == Val("NoneType", "None", 0)
PyInt(n) == Val("int", "num", n)
PyFloat(n) == Val("float", "num", n)
PyStr(s) == Val("str", s, 0)
PyNaN == Val("float", "nan", 0)

Methods == {"space_cluster", "space_time_cluster", "correlation_cluster"}

\* dict.update({k: v}) on a dict held as a function
DictPut(d, k, v) == [x \in (DOMAIN d) \cup {k} |-> IF x = k THEN v ELSE d[x]]

HasKey(d, k) == k \in DOMAIN d

EmptyDict == [x \in {} |-> x]

-----------------------------------------------------------------------------
(* The external delegates.  Distances are a fixed symmetric function of   *)
(* the two waveform payloads, in hundredths; thresholds likewise.         *)

DistOf(a, b) == IF a = b THEN 0
                ELSE IF a < b THEN 10 * a + b ELSE 10 * b + a

\* euc.cluster default corr_thresh=0.3
DefaultCorrThresh == 30

\* indices reachable from set S by links of length <= cut between payloads
RECURSIVE Closure(_, _, _)
Closure(S, sts, cut) ==
    LET T == S \cup {j \in 1..Len(sts) :
                       \E i \in S : DistOf(sts[i], sts[j]) <= cut}
    IN IF T = S THEN S ELSE Closure(T, sts, cut)

MinOf(S) == CHOOSE i \in S : \A j \in S : i <= j

\* group number of each position: components in order of their first member
GroupOf(sts, cut) ==
    LET lead == [i \in 1..Len(sts) |-> MinOf(Closure({i}, sts, cut))]
    IN [i \in 1..Len(sts) |-> Cardinality({lead[j] : j \in 1..Len(sts)} \cap 1..(lead[i] - 1))]

\* positions listed group by group, as the delegates return their groups
ByGroup(g) ==
    Concat([e \in 1..Len(g) |->
              SelectSeq([i \in 1..Len(g) |-> i], LAMBDA i : g[i] = e - 1)])

\* the matrix the correlation delegate saves: entry [i][j] is the distance
\* between the i-th and j-th submitted waveforms
DelegateMatrix(sts) ==
    [present |-> TRUE,
     m |-> [i \in 1..Len(sts) |-> [j \in 1..Len(sts) |-> DistOf(sts[i], sts[j])]]]

-----------------------------------------------------------------------------
(* select, _get_template_list, cluster *)

HasTemplateNamed(inst, nm) == \E i \in 1..Len(inst.templates) : inst.templates[i].name = nm

\* Tribe.select(name): the first template of that name
Select(inst, nm) ==
    inst.templates[MinOf({i \in 1..Len(inst.templates) : inst.templates[i].name = nm})]

\* the second definition of _get_template_list, which replaces the first:
\* one (st, id_no) per ROW of self.clusters
GetTemplateList(inst) ==
    [i \in 1..Len(inst.clusters.rows) |->
        [st |-> Select(inst, inst.clusters.rows[i].name).st,
         id |-> inst.clusters.rows[i].cell["id_no"]]]

\* pd.concat([clusters, DataFrame({method: values}, index=index)], axis=1):
\* an outer join on the index, rows in order of first appearance
ConcatColumn(cl, method, index, values) ==
    LET cols == cl.cols \cup {method}
        valOf(nm) == IF nm \in Range(index)
                     THEN values[MinOf({k \in 1..Len(index) : index[k] = nm})]
                     ELSE NaN
        old == [i \in 1..Len(cl.rows) |->
                  [name |-> cl.rows[i].name,
                   cell |-> [c \in cols |-> IF c = method THEN valOf(cl.rows[i].name)
                                             ELSE cl.rows[i].cell[c]]]]
        fresh == SelectSeq(index, LAMBDA nm : nm \notin IndexValues(cl))
        added == [k \in 1..Len(fresh) |->
                    [name |-> fresh[k],
                     cell |-> [c \in cols |-> IF c = method THEN valOf(fresh[k]) ELSE NaN]]]
    IN [cols |-> cols, rows |-> old \o added]

\* self.clusters.loc[name] = value: the whole row is written, not one cell
LocSetWholeRow(cl, nm, method, value) ==
    IF nm \in IndexValues(cl)
    THEN [cl EXCEPT !.rows = [i \in 1..Len(cl.rows) |->
            IF cl.rows[i].name = nm
            THEN [cl.rows[i] EXCEPT !.cell = [c \in cl.cols |-> value]]
            ELSE cl.rows[i]]]
    ELSE [cl EXCEPT !.rows = Append(cl.rows,
            [name |-> nm, cell |-> [c \in cl.cols |-> value]])]

\* self.clusters.loc[name, method] = value: every row of that label, or a new
\* row (NaN elsewhere) when the label is not in the index
LocSet(cl, nm, method, value) ==
    IF nm \in IndexValues(cl)
    THEN [cl EXCEPT !.rows = [i \in 1..Len(cl.rows) |->
            IF cl.rows[i].name = nm
            THEN [cl.rows[i] EXCEPT !.cell[method] = value]
            ELSE cl.rows[i]]]
    ELSE [cl EXCEPT !.rows = Append(cl.rows,
            [name |-> nm,
             cell |-> [c \in cl.cols |-> IF c = method THEN value ELSE NaN]])]

RECURSIVE LocSetEach(_, _, _, _)
LocSetEach(cl, method, index, values) ==
    IF index = <<>> THEN cl
    ELSE LocSetEach(LocSet(cl, Head(index), method, Head(values)),
                    method, Tail(index), Tail(values))

\* lines 196-204: record the parameters, then write the column
StoreGroups(inst, kwd, method, kwargs, index, values) ==
    LET kwd2 == DictPut(kwd, method, kwargs)
    IN IF method \notin inst.clusters.cols
       THEN IF (~NoDup(index) \/ ~NoDup(RowNames(inst.clusters)))
               /\ index # RowNames(inst.clusters)
            THEN \* pandas cannot join on an index with repeated labels
                 [inst |-> inst, kw |-> kwd2, err |-> "InvalidIndexError"]
            ELSE [inst |-> [inst EXCEPT !.clusters =
                               ConcatColumn(inst.clusters, method, index, values)],
                  kw |-> kwd2, err |-> "none"]
       ELSE [inst |-> [inst EXCEPT !.clusters =
                          LocSetEach(inst.clusters, method, index, values)],
             kw |-> kwd2, err |-> "none"]

\* the threshold parameter as a cut distance
SpaceCut(kwargs) == IF HasKey(kwargs, "d_thresh") THEN kwargs["d_thresh"].n ELSE 0

CorrCut(kwargs) == 100 - (IF HasKey(kwargs, "corr_thresh") THEN kwargs["corr_thresh"].n
                          ELSE DefaultCorrThresh)

\* the delegate's file is never removed
SaveLocalAlways(kwargs) == TRUE

\* lines 174-182: save_local, true only when the caller passed a true
\* save_corrmat
SaveLocal(kwargs) == HasKey(kwargs, "save_corrmat") /\ kwargs["save_corrmat"] # PyFalse

\* a cluster that records the parameters of the call before it checks the
\* number of templates and the method name
ClusterRecordsFirst(inst, kwd, file, method, kwargs) ==
    [inst |-> inst, kw |-> DictPut(kwd, method, kwargs), file |-> file,
     err |-> IF Len(inst.templates) < 2 THEN "AttributeError"
             ELSE IF method \notin Methods THEN "ValueError"
             ELSE "none"]

\* cluster(method, **kwargs); file is dist_mat.npy in the working directory
Cluster(inst, kwd, file, method, kwargs) ==
    IF Len(inst.templates) < 2
    THEN [inst |-> inst, kw |-> kwd, file |-> file, err |-> "AttributeError"]
    ELSE IF method \in {"space_cluster", "space_time_cluster"}
    THEN LET sts == [i \in 1..Len(inst.templates) |-> inst.templates[i].st]
             g == GroupOf(sts, SpaceCut(kwargs))
             order == ByGroup(g)
             index == [k \in 1..Len(order) |-> inst.templates[order[k]].name]
             values == [k \in 1..Len(order) |-> g[order[k]]]
             r == StoreGroups(inst, kwd, method, kwargs, index, values)
         IN [inst |-> r.inst, kw |-> r.kw, file |-> file, err |-> r.err]
    ELSE IF method = "correlation_cluster"
    THEN LET save_local == SaveLocal(kwargs)
             kwargs2 == DictPut(kwargs, "save_corrmat", PyTrue)
         IN IF \E i \in 1..Len(inst.clusters.rows) :
                  ~HasTemplateNamed(inst, inst.clusters.rows[i].name)
            THEN \* self.select(name) finds nothing
                 [inst |-> inst, kw |-> kwd, file |-> file, err |-> "IndexError"]
            ELSE IF Len(inst.clusters.rows) < 2
            THEN \* the delegate cannot correlate fewer than two waveforms
                 [inst |-> inst, kw |-> kwd, file |-> file, err |-> "DelegateError"]
            ELSE LET tl == GetTemplateList(inst)
                     sts == [i \in 1..Len(tl) |-> tl[i].st]
                     g == GroupOf(sts, CorrCut(kwargs2))
                     order == ByGroup(g)
                     inst2 == [inst EXCEPT !.dist_mat = DelegateMatrix(sts)]
                     file2 == save_local
                 IN IF \E k \in 1..Len(tl) : tl[k].id = NaN
                    THEN [inst |-> inst2, kw |-> kwd, file |-> file2, err |-> "TypeError"]
                    ELSE IF \E k \in 1..Len(tl) : tl[k].id >= Len(inst.templates)
                    THEN [inst |-> inst2, kw |-> kwd, file |-> file2, err |-> "IndexError"]
                    ELSE LET index == [k \in 1..Len(order) |->
                                          inst.templates[tl[order[k]].id + 1].name]
                             values == [k \in 1..Len(order) |-> g[order[k]]]
                             r == StoreGroups(inst2, kwd, method, kwargs2, index, values)
                         IN [inst |-> r.inst, kw |-> r.kw, file |-> file2, err |-> r.err]
    ELSE [inst |-> inst, kw |-> kwd, file |-> file, err |-> "ValueError"]

-----------------------------------------------------------------------------
(* get_subset *)

IdNos(cl) == [i \in 1..Len(cl.rows) |-> cl.rows[i].cell["id_no"]]

\* lines 230-234: the matrix of the subset, filled by walking the id_no
\* values of the subset's rows
SubsetMatrix(parent, n, ids) ==
    [present |-> TRUE,
     m |-> [x \in 1..n |-> [y \in 1..n |->
              IF x <= Len(ids) /\ y <= Len(ids)
              THEN parent.m[ids[x] + 1][ids[y] + 1]
              ELSE NaN]]]

\* lines 219-220: a str is as it would be walked by set(names) and the list
\* comprehension were it not wrapped: one one-character name per character
Characters(names) == [i \in 1..Len(names.s) |-> <<names.s[i]>>]

\* get_subset without the wrapping of a str
NamesUnwrapped(names) == IF names.kind = "str" THEN Characters(names) ELSE names.v

\* lines 219-220: a single str becomes a one-element list
\* (names.s is the str, names.v the list)
NormalizeNames(names) == IF names.kind = "str" THEN <<names.s>> ELSE names.v

\* lines 222-236, names a list of names
GetSubset(inst, names) ==
    IF ~(Range(names) \subseteq IndexValues(inst.clusters))
    THEN Raise(inst, "ValueError")
    ELSE IF \E i \in 1..Len(names) : ~HasTemplateNamed(inst, names[i])
    THEN Raise(inst, "IndexError")
    ELSE LET c == Construct(inst.kw, [i \in 1..Len(names) |-> Select(inst, names[i])])
             rows == RowsIsin(inst.clusters, Range(names))
             ids == IdNos(rows)
             s1 == [c.inst EXCEPT !.clusters = rows, !.kw = inst.kw]
         IN IF c.err # "none" THEN Raise(inst, c.err)
            ELSE IF ~inst.dist_mat.present THEN Ok(s1)
            ELSE IF \/ Len(ids) > Len(names)
                    \/ \E k \in 1..Len(ids) :
                         ids[k] = NaN \/ ids[k] >= Len(inst.dist_mat.m)
            THEN Raise(inst, "IndexError")
            ELSE Ok([s1 EXCEPT !.dist_mat =
                        SubsetMatrix(inst.dist_mat, Len(names), ids)])

\* lines 253-258: the names of the rows whose cell in the method's column
\* equals index, in table order, handed to get_subset.  A method without a
\* column is logged and then looked up all the same: KeyError.
ClusterNames(cl, method, index) ==
    SelectSeq(RowNames(cl),
              LAMBDA nm : \E i \in 1..Len(cl.rows) :
                             cl.rows[i].name = nm /\ cl.rows[i].cell[method] = index)

SelectCluster(inst, method, index) ==
    IF method \notin inst.clusters.cols
    THEN Raise(inst, "KeyError")
    ELSE GetSubset(inst, ClusterNames(inst.clusters, method, index))

-----------------------------------------------------------------------------
(* _get_linkage, _cct_regroup *)

\* the three linkage settings and the defaults of the loop at line 288
LinkageDefaults ==
    [method |-> PyStr("single"), metric |-> PyStr("euclidian"),
     optimal_ordering |-> PyFalse]

\* lines 288-292: a recorded value is taken only when the caller gave none;
\* in every other case, a given value included, the default is written
LinkageKwargs(ckw, kwargs) ==
    [k \in (DOMAIN kwargs) \cup (DOMAIN LinkageDefaults) |->
        IF k \in DOMAIN LinkageDefaults
        THEN IF HasKey(ckw, k) /\ ~HasKey(kwargs, k) THEN ckw[k] ELSE LinkageDefaults[k]
        ELSE kwargs[k]]

HasNaN(m) == \E i \in 1..Len(m) : \E j \in 1..Len(m[i]) : m[i][j] = NaN

\* euc.handle_distmat_nans: unknown entries are replaced per the fill policy
\* (a number, or the min of the known entries; the mean is taken as the min
\* here), the diagonal is set to zero
FillValue(m, rndw) ==
    IF rndw.t \in {"int", "float"} /\ rndw.txt = "num" THEN rndw.n
    ELSE LET known == {m[i][j] : i, j \in 1..Len(m)} \ {NaN}
         IN IF known = {} THEN 0 ELSE MinOf(known)

HandleDistmatNans(m, rndw) ==
    [i \in 1..Len(m) |-> [j \in 1..Len(m) |->
        IF i = j THEN 0 ELSE IF m[i][j] = NaN THEN FillValue(m, rndw) ELSE m[i][j]]]

NoLinkage == [present |-> FALSE, args |-> EmptyDict, m |-> <<>>]

\* scipy linkage(dist_vect, **kwargs): the tree is kept as what it was built
\* from, the distances and the settings
Linkage(m, kwargs) == [present |-> TRUE, args |-> kwargs, m |-> m]

\* _get_linkage(**kwargs): z is the returned linkage (None when absent),
\* calls the number of calls made to the linkage routine
GetLinkage(inst, kwd, kwargs) ==
    LET hasCol == "correlation_cluster" \in inst.clusters.cols
        fail(e) == [err |-> e, z |-> NoLinkage, calls |-> 0]
    IN IF hasCol /\ ~HasKey(kwd, "correlation_cluster") THEN fail("KeyError")
       ELSE IF ~inst.dist_mat.present THEN fail("none")
       ELSE IF ~hasCol THEN fail("UnboundLocalError")
       ELSE LET ckw == kwd["correlation_cluster"]
            IN IF ~HasKey(ckw, "replace_nan_distances_with") THEN fail("KeyError")
               ELSE LET rndw == ckw["replace_nan_distances_with"]
                    IN IF HasNaN(inst.dist_mat.m)
                          /\ ~(rndw.t \in {"int", "float"} \/ rndw.txt \in {"mean", "min"})
                       THEN fail("NotImplementedError")
                       ELSE [err |-> "none",
                             z |-> Linkage(HandleDistmatNans(inst.dist_mat.m, rndw),
                                           LinkageKwargs(ckw, kwargs)),
                             calls |-> 1]

\* indices reachable from S by links of length <= cut in the matrix m
RECURSIVE ClosureM(_, _, _)
ClosureM(S, m, cut) ==
    LET T == S \cup {j \in 1..Len(m) : \E i \in S : m[i][j] <= cut}
    IN IF T = S THEN S ELSE ClosureM(T, m, cut)

\* euc.fcluster(Z, t, criterion='distance'): flat cluster numbers from 1
Fcluster(z, cut) ==
    LET lead == [i \in 1..Len(z.m) |-> MinOf(ClosureM({i}, z.m, cut))]
    IN [i \in 1..Len(z.m) |->
          1 + Cardinality({lead[j] : j \in 1..Len(z.m)} \cap 1..(lead[i] - 1))]

\* a pandas Series as its (label, value) pairs in order
Column(cl, c) == [i \in 1..Len(cl.rows) |-> <<cl.rows[i].name, cl.rows[i].cell[c]>>]

\* _cct_regroup(corr_thresh, **kwargs); corr_thresh in hundredths
CctRegroup(inst, kwd, corr_thresh, kwargs) ==
    LET hasCol == "correlation_cluster" \in inst.clusters.cols
        fail(e, n) == [err |-> e, ret |-> <<>>, calls |-> n]
    IN IF hasCol /\ ~HasKey(kwd, "correlation_cluster") THEN fail("KeyError", 0)
       ELSE LET L == GetLinkage(inst, kwd, kwargs)
            IN IF L.err # "none" THEN fail(L.err, L.calls)
               ELSE IF ~hasCol THEN fail("UnboundLocalError", L.calls)
               ELSE LET ckw == kwd["correlation_cluster"]
                    IN IF ~HasKey(ckw, "corr_thresh") THEN fail("KeyError", L.calls)
                       ELSE IF ckw["corr_thresh"].txt = "num" /\ ckw["corr_thresh"].n = corr_thresh
                       THEN [err |-> "none",
                             ret |-> Column(inst.clusters, "correlation_cluster"),
                             calls |-> L.calls]
                       ELSE IF ~L.z.present THEN fail("DelegateError", L.calls)
                       ELSE LET indices == Fcluster(L.z, 100 - corr_thresh)
                            IN IF Len(indices) # Len(inst.clusters.rows)
                               THEN fail("ValueError", L.calls)
                               ELSE [err |-> "none",
                                     ret |-> [i \in 1..Len(indices) |->
                                                <<inst.clusters.rows[i].name, indices[i]>>],
                                     calls |-> L.calls]

-----------------------------------------------------------------------------
(* write: the archive as the files it holds *)

\* file.write(f'{_l},{_w}') for a str, f'{_l},{repr(_w)}' otherwise: the text
\* of the value, without its type
Token(v) == [txt |-> v.txt, n |-> v.n]

WriteKwargs(kwargs) == [k \in DOMAIN kwargs |-> Token(kwargs[k])]

\* one <name>.ms per template; a later template of the same name overwrites
MsFiles(templates) ==
    [nm \in {templates[i].name : i \in 1..Len(templates)} |->
        templates[CHOOSE i \in 1..Len(templates) :
                     /\ templates[i].name = nm
                     /\ \A j \in 1..Len(templates) : templates[j].name = nm => j <= i].st]

Write(inst, kwd) ==
    [present |-> TRUE,
     par |-> TemplateNames(inst),
     ms |-> MsFiles(inst.templates),
     clusters |-> inst.clusters,
     kwargs |-> [mth \in DOMAIN kwd |-> WriteKwargs(kwd[mth])],
     dist_mat |-> inst.dist_mat]

-----------------------------------------------------------------------------
(* read, _read_from_folder *)

IsNA(tok) == tok.txt \in {"None", "nan"}

IsBoolText(tok) == tok.txt \in {"True", "False"}

IsNumText(tok) == tok.txt = "num"

\* pd.read_csv(ckf, index_col=[0], header=None) types the value column as a
\* whole; then lines 607-618 coerce each value
ParseKwargs(file) ==
    LET toks == {file[k] : k \in DOMAIN file}
        known == {t \in toks : ~IsNA(t)}
        boolcol == known # {} /\ \A t \in known : IsBoolText(t)
        numcol == \A t \in known : IsNumText(t)
        coerce(t) ==
            IF IsNA(t) THEN PyNaN
            ELSE IF boolcol
            THEN \* a numpy bool is not == 'True'; float(True) is 1.0
                 PyFloat(IF t.txt = "True" THEN 1 ELSE 0)
            ELSE IF numcol THEN PyFloat(t.n)
            ELSE IF t.txt = "True" THEN PyTrue
            ELSE IF t.txt = "False" THEN PyFalse
            ELSE IF IsNumText(t) THEN PyFloat(t.n)
            ELSE PyStr(t.txt)
    IN [k \in DOMAIN file |-> coerce(file[k])]

\* the payload of a waveform file that obspy.read cannot decode
Unreadable == 0

\* the archive as read finds it when the files named in corrupt are damaged
Corrupt(a, corrupt) ==
    [a EXCEPT !.ms = [nm \in DOMAIN a.ms |->
                         IF nm \in corrupt THEN Unreadable ELSE a.ms[nm]]]

\* the archive as read finds it when the waveform files named in lost are
\* missing from the folder (glob at line 544 does not list them)
Lose(a, lost) == [a EXCEPT !.ms = [nm \in (DOMAIN a.ms) \ lost |-> a.ms[nm]]]

\* the fatal reading of a missing waveform, in place of lines 571-573
ReadFromFolderStrict(inst, kwd, a) ==
    [inst |-> inst, kw |-> kwd,
     err |-> IF Range(a.par) \subseteq DOMAIN a.ms THEN "none" ELSE "FileNotFoundError"]

\* lines 559-579: the templates of the parameter file that are new to this
\* instance and have a waveform file
LoadedTemplates(inst, a) ==
    LET keep == SelectSeq(a.par, LAMBDA nm :
                    /\ nm \notin Range(TemplateNames(inst))
                    /\ nm \in DOMAIN a.ms)
    IN [i \in 1..Len(keep) |-> Tpl(keep[i], a.ms[keep[i]])]

\* lines 581-597
MergeClusters(cl, file, loadedNames) ==
    IF Len(file.rows) = 0 THEN cl
    ELSE LET rows == RowsIsin(file, loadedNames)
         IN IF IndexValues(rows) = loadedNames THEN ConcatRows(cl, rows)
            ELSE cl

\* lines 599-618: each parameter file replaces the entry of its method
RECURSIVE MergeKwargs(_, _, _)
MergeKwargs(kwd, files, todo) ==
    IF todo = {} THEN kwd
    ELSE LET mth == CHOOSE x \in todo : TRUE
         IN MergeKwargs(DictPut(kwd, mth, ParseKwargs(files[mth])), files, todo \ {mth})

ReadFromFolder(inst, kwd, a) ==
    LET tpls == LoadedTemplates(inst, a)
        names == {tpls[i].name : i \in 1..Len(tpls)}
    IN IF \E i \in 1..Len(tpls) : tpls[i].st = Unreadable
       THEN \* line 576: read(t_file[0]) raises, before line 579
            [inst |-> inst, kw |-> kwd, err |-> "TypeError"]
       ELSE [inst |-> [inst EXCEPT
                         !.templates = inst.templates \o tpls,
                         !.clusters = MergeClusters(inst.clusters, a.clusters, names),
                         !.dist_mat = IF a.dist_mat.present THEN a.dist_mat
                                      ELSE inst.dist_mat],
             kw |-> MergeKwargs(kwd, a.kwargs, DOMAIN a.kwargs),
             err |-> "none"]

\* the directories a call can leave on disk: the temporary directories of
\* read (a new one per call) and the working directory of write
NoDirs == [temp |-> 0, work |-> FALSE]

\* read(filename) of a packed archive, lines 525-533: mkdtemp, extract,
\* _read_from_folder, then rmtree; an exception skips the rmtree
Read(inst, kwd, a, d) ==
    LET r == ReadFromFolder(inst, kwd, a)
    IN [inst |-> r.inst, kw |-> r.kw, err |-> r.err,
        dirs |-> IF r.err = "none" THEN d ELSE [d EXCEPT !.temp = d.temp + 1]]

\* write(filename, compress=True), lines 444-496: the working directory is
\* made, filled, packed and removed; fails stands for an exception raised
\* while a template's waveform is written (template.st.write, line 471)
WriteCall(inst, kwd, a, d, fails) ==
    IF fails
    THEN [arc |-> a, dirs |-> [d EXCEPT !.work = TRUE], err |-> "OSError"]
    ELSE [arc |-> Write(inst, kwd), dirs |-> [d EXCEPT !.work = FALSE], err |-> "none"]

\* Tribe.__iadd__(other): the templates of other are appended to
\* self.templates; self.clusters is no part of a Tribe and is left alone
IAdd(inst, templates) == [inst EXCEPT !.templates = inst.templates \o templates]

\* read(filename): a .pkl is unpickled and merged with +=, anything else is
\* unpacked and read as a folder
ReadPkl(inst, pickled) == Ok(IAdd(inst, pickled))

\* generate_clustering_tribe_from_banks: ctr = ClusteringTribe(), then
\* ctr += tribe for the tribe built from each event
RECURSIVE FromBanks(_, _)
FromBanks(ctr, tribes) ==
    IF tribes = <<>> THEN ctr
    ELSE FromBanks(IAdd(ctr, Head(tribes)), Tail(tribes))

-----------------------------------------------------------------------------
(* select_template_traces *)

\* a Stream with no traces: len(template.st) == 0
EmptyStream == 4

\* template.st.select(**kwargs): the waveforms named in empties have no
\* trace that matches the selection and come back empty; the others have
\* every trace matching it.  An empty stream stays empty.
StSelect(st, empties) ==
    IF st = EmptyStream \/ st \in empties THEN EmptyStream ELSE st

TracesSelected(t, empties) == [t EXCEPT !.st = StSelect(t.st, empties)]

\* the template objects of the index, each tagged with its position in
\* the list the loop walks
Tagged(templates) ==
    [i \in 1..Len(templates) |-> [id |-> i, t |-> templates[i]]]

Untagged(cur) == [i \in 1..Len(cur) |-> cur[i].t]

\* The loop walks the list as it is while it walks it: position p of the
\* current list, which a removal has shifted.
RECURSIVE WalkLive(_, _, _, _, _)
WalkLive(inst, cur, p, empties, remove_empty_templates) ==
    IF p > Len(cur) THEN Ok([inst EXCEPT !.templates = Untagged(cur)])
    ELSE LET t1 == TracesSelected(cur[p].t, empties)
             cur1 == [cur EXCEPT ![p].t = t1]
             here == [inst EXCEPT !.templates = Untagged(cur1)]
         IN IF t1.st = EmptyStream /\ remove_empty_templates
            THEN LET r == Remove(here, t1)
                 IN IF r.err # "none" THEN r
                    ELSE WalkLive(inst, SelectSeq(cur1, LAMBDA e : e.t # t1),
                                  p + 1, empties, remove_empty_templates)
            ELSE WalkLive(inst, cur1, p + 1, empties, remove_empty_templates)

SelectTemplateTracesLive(inst, empties, remove_empty_templates) ==
    WalkLive(inst, Tagged(inst.templates), 1, empties, remove_empty_templates)

\* lines 649-655: Tribe.__iter__ hands out an iterator over a copy of the
\* list, so the loop visits every template object that was in the index
\* when it began (snap), whatever has been removed since.  Line 651 rebinds
\* the st of the object itself; line 655 is remove, which raises KeyError
\* for a name without a row and otherwise drops every template equal to
\* this one.
RECURSIVE Walk(_, _, _, _, _, _)
Walk(inst, snap, cur, i, empties, remove_empty_templates) ==
    IF i > Len(snap) THEN Ok([inst EXCEPT !.templates = Untagged(cur)])
    ELSE LET t0 == IF \E k \in 1..Len(cur) : cur[k].id = i
                   THEN (CHOOSE e \in Range(cur) : e.id = i).t
                   ELSE snap[i]
             t1 == TracesSelected(t0, empties)
             cur1 == [k \in 1..Len(cur) |->
                        IF cur[k].id = i THEN [cur[k] EXCEPT !.t = t1] ELSE cur[k]]
             here == [inst EXCEPT !.templates = Untagged(cur1)]
         IN IF t1.st = EmptyStream /\ remove_empty_templates
            THEN LET r == Remove(here, t1)
                 IN IF r.err # "none" THEN r
                    ELSE Walk(inst, snap, SelectSeq(cur1, LAMBDA e : e.t # t1),
                              i + 1, empties, remove_empty_templates)
            ELSE Walk(inst, snap, cur1, i + 1, empties, remove_empty_templates)

SelectTemplateTraces(inst, empties, remove_empty_templates) ==
    Walk(inst, inst.templates, Tagged(inst.templates), 1, empties,
         remove_empty_templates)

-----------------------------------------------------------------------------
(* The record of the last call *)

NoCall == [op |-> "none", err |-> "none", target |-> "none", tpl |-> NotATemplate,
           coll |-> [kind |-> "scalar", items |-> <<>>], rename |-> FALSE,
           delim |-> DefaultDelimiter, names |-> <<>>, names0 |-> <<>>,
           method |-> "none", kwargs |-> EmptyDict, had_column |-> FALSE,
           arg |-> [kind |-> "list", v |-> <<>>, s |-> <<>>],
           lost |-> {}, corrupt |-> {}, index |-> 0, calls |-> 0,
           z |-> NoLinkage, ret |-> <<>>, thresh |-> 0,
           empties |-> {}, flag |-> FALSE, before |-> <<>>]

Call(op, err) == [NoCall EXCEPT !.op = op, !.err = err]

-----------------------------------------------------------------------------
(* Inputs *)

\* the collections handed to extend
Collections ==
    {[kind |-> "Template", items |-> <<TplA>>]}
    \cup {[kind |-> k, items |-> <<TplB, TplA0>>] : k \in {"Tribe", "list"}}
    \cup {[kind |-> "Tribe", items |-> <<TplB, TplA>>],
          [kind |-> "list", items |-> <<TplB, NotATemplate>>],
          [kind |-> "list", items |-> <<>>],
          [kind |-> "scalar", items |-> <<>>]}

\* the template lists handed to the constructors and found in pickles
TemplateLists ==
    {SubSeq(l, 1, k) : l \in {<<TplA, TplB, TplA0>>, <<TplA0, TplB, TplA>>},
                       k \in 0..(IF MaxTemplates < 3 THEN MaxTemplates ELSE 3)}

MethodInputs == {"space_cluster", "correlation_cluster", "kmeans"}

KwInputs(method) ==
    IF method = "space_cluster"
    THEN {[d_thresh |-> PyInt(0)], [d_thresh |-> PyInt(12)]}
    ELSE IF method = "correlation_cluster"
    THEN {EmptyDict,
          [corr_thresh |-> PyFloat(88), save_corrmat |-> PyFalse],
          [corr_thresh |-> PyFloat(95), save_corrmat |-> PyTrue,
           replace_nan_distances_with |-> PyStr("mean"),
           method |-> PyStr("average")]}
    ELSE {EmptyDict}

Reverse(s) == [i \in 1..Len(s) |-> s[Len(s) + 1 - i]]

NameAbsent == <<"z">>

\* the group ids asked of select_cluster
GroupIds == {0, 1}

\* the waveform files missing from the archive handed to read: none, or one
LostFiles(a) == {{}} \cup {{nm} : nm \in DOMAIN a.ms}

\* the waveform files of the archive that obspy cannot read: none, or one
CorruptFiles(a) == {{}} \cup {{nm} : nm \in DOMAIN a.ms}

\* the overrides handed to _get_linkage and _cct_regroup
LinkageOverrides ==
    {EmptyDict, [method |-> PyStr("complete")], [optimal_ordering |-> PyTrue]}

\* the thresholds handed to _cct_regroup, in hundredths
Thresholds == {88, 95}

\* the name lists handed to get_subset: every set of row labels, in table
\* order and in reverse, and one list with a name that has no row
SubsetInputs(inst) ==
    LET all == RowNames(inst.clusters)
        pick(S) == SelectSeq(all, LAMBDA nm : nm \in S)
    IN {pick(S) : S \in SUBSET Range(all)}
       \cup {Reverse(pick(S)) : S \in SUBSET Range(all)}
       \cup {<<NameAbsent>>, Append(all, NameAbsent)}

\* the arguments handed to get_subset: a list of names, or one name as a str
SubsetArgs(inst) ==
    {[kind |-> "list", v |-> l, s |-> <<>>] : l \in SubsetInputs(inst)}
    \cup {[kind |-> "str", v |-> <<>>, s |-> nm] :
             nm \in IndexValues(inst.clusters) \cup {NameAbsent}}

-----------------------------------------------------------------------------
(* Actions *)

None == [templates |-> <<>>, clusters |-> EmptyFrame, kw |-> 0, dist_mat |-> NoMat]

NoArchive == [present |-> FALSE, par |-> <<>>, ms |-> EmptyDict,
              clusters |-> EmptyFrame, kwargs |-> EmptyDict, dist_mat |-> NoMat]

Init ==
    /\ ct = NewInstance(1)
    /\ sub = None
    /\ sub2 = None
    /\ loaded = None
    /\ heap = [r \in 1..2 |-> EmptyDict]
    /\ arc = NoArchive
    /\ npy_file = FALSE
    /\ dirs = NoDirs
    /\ last = NoCall
    /\ steps = 0

Step == steps < MaxSteps /\ steps' = steps + 1

\* ClusteringTribe(templates=[...]) as the program's first call
DoConstruct ==
    /\ last.op = "none"
    /\ UNCHANGED steps
    /\ \E tl \in TemplateLists \ {<<>>} :
         LET r == Construct(1, tl)
         IN /\ ct' = r.inst
            /\ last' = [Call("construct", r.err) EXCEPT
                           !.coll = [kind |-> "list", items |-> tl]]
    /\ UNCHANGED <<sub, sub2, loaded, heap, arc, npy_file, dirs>>

\* generate_clustering_tribe_from_banks(...) as the program's first call, one
\* single-template tribe per event
DoFromBanks ==
    /\ last.op = "none"
    /\ UNCHANGED steps
    /\ \E tl \in TemplateLists \ {<<>>} :
         /\ ct' = FromBanks(NewInstance(1), [i \in 1..Len(tl) |-> <<tl[i]>>])
         /\ last' = [Call("from_banks", "none") EXCEPT
                        !.coll = [kind |-> "list", items |-> tl]]
    /\ UNCHANGED <<sub, sub2, loaded, heap, arc, npy_file, dirs>>

DoAddTemplate ==
    /\ Step
    /\ \E other \in PoolTemplates \cup {NotATemplate}, rn \in BOOLEAN, d \in Delimiters :
         /\ Len(ct.templates) < MaxTemplates
         /\ rn = FALSE => d = DefaultDelimiter
         /\ LET r == AddTemplate(ct, other, rn, d)
            IN /\ ct' = r.inst
               /\ last' = [Call("add_template", r.err) EXCEPT
                              !.tpl = other, !.rename = rn, !.delim = d]
    /\ UNCHANGED <<sub, sub2, loaded, heap, arc, npy_file, dirs>>

DoRemove ==
    /\ Step
    /\ \E template \in Range(ct.templates) \cup {TplA} :
         LET r == Remove(ct, template)
         IN /\ ct' = r.inst
            /\ last' = [Call("remove", r.err) EXCEPT !.tpl = template]
    /\ UNCHANGED <<sub, sub2, loaded, heap, arc, npy_file, dirs>>

DoExtend ==
    /\ Step
    /\ \E other \in Collections :
         /\ Len(ct.templates) + Len(other.items) <= MaxTemplates
         /\ LET r == Extend(ct, other, FALSE, DefaultDelimiter)
            IN /\ ct' = r.inst
               /\ last' = [Call("extend", r.err) EXCEPT !.coll = other]
    /\ UNCHANGED <<sub, sub2, loaded, heap, arc, npy_file, dirs>>

DoCluster ==
    /\ Step
    /\ \E method \in MethodInputs : \E kwargs \in KwInputs(method) :
         LET r == Cluster(ct, heap[ct.kw], npy_file, method, kwargs)
         IN /\ ct' = r.inst
            /\ heap' = [heap EXCEPT ![ct.kw] = r.kw]
            /\ npy_file' = r.file
            /\ UNCHANGED dirs
            /\ last' = [Call("cluster", r.err) EXCEPT
                           !.method = method, !.kwargs = kwargs,
                           !.had_column = (method \in ct.clusters.cols)]
    /\ UNCHANGED <<sub, sub2, loaded, arc>>

DoGetSubset ==
    /\ Step
    /\ \E arg \in SubsetArgs(ct) :
         LET names == NormalizeNames(arg)
             r == GetSubset(ct, names)
         IN /\ sub' = IF r.err = "none" THEN r.inst ELSE sub
            /\ last' = [Call("get_subset", r.err) EXCEPT
                           !.target = "ct", !.names = names, !.arg = arg]
    /\ UNCHANGED <<ct, sub2, loaded, heap, arc, npy_file, dirs>>

\* get_subset on the projection that the last call returned
DoGetSubsetAgain ==
    /\ Step
    /\ last.op = "get_subset" /\ last.target = "ct" /\ last.err = "none"
    /\ \E names \in SubsetInputs(sub) :
         LET r == GetSubset(sub, names)
         IN /\ sub2' = IF r.err = "none" THEN r.inst ELSE sub2
            /\ last' = [Call("get_subset", r.err) EXCEPT
                           !.target = "sub", !.names = names, !.names0 = last.names]
    /\ UNCHANGED <<ct, sub, loaded, heap, arc, npy_file, dirs>>

\* cluster(method, **kwargs) called on the projection that get_subset or
\* select_cluster returned; its cluster_kwargs is the parent's dict
DoSubCluster ==
    /\ Step
    /\ sub.kw # 0
    /\ \E method \in MethodInputs : \E kwargs \in KwInputs(method) :
         LET r == Cluster(sub, heap[sub.kw], npy_file, method, kwargs)
         IN /\ sub' = r.inst
            /\ heap' = [heap EXCEPT ![sub.kw] = r.kw]
            /\ npy_file' = r.file
            /\ last' = [Call("sub.cluster", r.err) EXCEPT
                           !.target = "sub", !.method = method, !.kwargs = kwargs]
    /\ UNCHANGED <<ct, sub2, loaded, arc, dirs>>

\* add_template(other) called on the projection
DoSubAddTemplate ==
    /\ Step
    /\ sub.kw # 0
    /\ \E other \in PoolTemplates :
         /\ Len(sub.templates) < MaxTemplates
         /\ LET r == AddTemplate(sub, other, FALSE, DefaultDelimiter)
            IN /\ sub' = r.inst
               /\ last' = [Call("sub.add_template", r.err) EXCEPT
                              !.target = "sub", !.tpl = other]
    /\ UNCHANGED <<ct, sub2, loaded, heap, arc, npy_file, dirs>>

\* remove(template) called on the projection
DoSubRemove ==
    /\ Step
    /\ sub.kw # 0
    /\ \E template \in Range(sub.templates) :
         LET r == Remove(sub, template)
         IN /\ sub' = r.inst
            /\ last' = [Call("sub.remove", r.err) EXCEPT
                           !.target = "sub", !.tpl = template]
    /\ UNCHANGED <<ct, sub2, loaded, heap, arc, npy_file, dirs>>

\* select_cluster(method, index)
DoSelectCluster ==
    /\ Step
    /\ \E method \in MethodInputs, index \in GroupIds :
         LET r == SelectCluster(ct, method, index)
         IN /\ sub' = IF r.err = "none" THEN r.inst ELSE sub
            /\ last' = [Call("select_cluster", r.err) EXCEPT
                           !.target = "ct", !.method = method, !.index = index]
    /\ UNCHANGED <<ct, sub2, loaded, heap, arc, npy_file, dirs>>

\* _get_linkage(**kwargs)
DoGetLinkage ==
    /\ Step
    /\ \E kwargs \in LinkageOverrides :
         LET r == GetLinkage(ct, heap[ct.kw], kwargs)
         IN last' = [Call("get_linkage", r.err) EXCEPT
                        !.target = "ct", !.kwargs = kwargs, !.z = r.z, !.calls = r.calls]
    /\ UNCHANGED <<ct, sub, sub2, loaded, heap, arc, npy_file, dirs>>

\* _cct_regroup(corr_thresh, **kwargs)
DoRegroup ==
    /\ Step
    /\ \E corr_thresh \in Thresholds, kwargs \in LinkageOverrides :
         LET r == CctRegroup(ct, heap[ct.kw], corr_thresh, kwargs)
         IN last' = [Call("regroup", r.err) EXCEPT
                        !.target = "ct", !.kwargs = kwargs, !.thresh = corr_thresh,
                        !.ret = r.ret, !.calls = r.calls]
    /\ UNCHANGED <<ct, sub, sub2, loaded, heap, arc, npy_file, dirs>>

\* write(filename, compress=True)
DoWrite ==
    /\ Step
    /\ \E fails \in BOOLEAN :
         /\ fails => Len(ct.templates) > 0
         /\ LET r == WriteCall(ct, heap[ct.kw], arc, dirs, fails)
            IN
            /\ arc' = r.arc
            /\ dirs' = r.dirs
            /\ last' = Call("write", r.err)
    /\ UNCHANGED <<ct, sub, sub2, loaded, heap, npy_file>>

\* ClusteringTribe().read(filename) of the archive, into a fresh instance
DoReadFresh ==
    /\ Step
    /\ arc.present
    /\ \E lost \in LostFiles(arc), corrupt \in CorruptFiles(arc) :
         /\ lost = {} \/ corrupt = {}
         /\ LET r == Read(NewInstance(2), EmptyDict, Corrupt(Lose(arc, lost), corrupt), dirs)
            IN /\ loaded' = r.inst
               /\ heap' = [heap EXCEPT ![2] = r.kw]
               /\ dirs' = r.dirs
               /\ last' = [Call("read", r.err) EXCEPT
                              !.target = "fresh", !.lost = lost, !.corrupt = corrupt]
    /\ UNCHANGED <<ct, sub, sub2, arc, npy_file>>

\* self.read(filename) of the archive, into the instance itself
DoReadInto ==
    /\ Step
    /\ arc.present
    /\ Len(ct.templates) + Len(LoadedTemplates(ct, arc)) <= MaxTemplates
    /\ \E lost \in LostFiles(arc), corrupt \in CorruptFiles(arc) :
         /\ lost = {} \/ corrupt = {}
         /\ LET r == Read(ct, heap[ct.kw], Corrupt(Lose(arc, lost), corrupt), dirs)
            IN /\ ct' = r.inst
               /\ heap' = [heap EXCEPT ![ct.kw] = r.kw]
               /\ dirs' = r.dirs
               /\ last' = [Call("read", r.err) EXCEPT
                              !.target = "ct", !.lost = lost, !.corrupt = corrupt]
    /\ UNCHANGED <<sub, sub2, loaded, arc, npy_file>>

\* self.read('x.pkl') of a pickled Tribe
DoReadPkl ==
    /\ Step
    /\ \E pickled \in {<<TplA>>, <<TplB>>} :
         /\ Len(ct.templates) + Len(pickled) <= MaxTemplates
         /\ LET r == ReadPkl(ct, pickled)
            IN /\ ct' = r.inst
               /\ last' = [Call("read_pkl", r.err) EXCEPT
                              !.coll = [kind |-> "Tribe", items |-> pickled]]
    /\ UNCHANGED <<sub, sub2, loaded, heap, arc, npy_file, dirs>>

\* the waveforms a selection leaves empty
Waveforms == {TplA.st, TplB.st, TplA0.st}

\* select_template_traces(remove_empty_templates, **kwargs)
DoSelectTemplateTraces ==
    /\ Step
    /\ \E empties \in SUBSET Waveforms, flag \in BOOLEAN :
         LET r == SelectTemplateTraces(ct, empties, flag)
         IN /\ ct' = r.inst
            /\ last' = [Call("select_template_traces", r.err) EXCEPT
                           !.empties = empties, !.flag = flag,
                           !.before = ct.templates]
    /\ UNCHANGED <<sub, sub2, loaded, heap, arc, npy_file, dirs>>

Next ==
    \/ DoConstruct
    \/ DoFromBanks
    \/ DoAddTemplate
    \/ DoRemove
    \/ DoExtend
    \/ DoCluster
    \/ DoGetSubset
    \/ DoGetSubsetAgain
    \/ DoSelectCluster
    \/ DoSubCluster
    \/ DoSubAddTemplate
    \/ DoSubRemove
    \/ DoGetLinkage
    \/ DoRegroup
    \/ DoWrite
    \/ DoReadFresh
    \/ DoReadInto
    \/ DoReadPkl

Spec == Init /\ [][Next]_vars

\* the calls that act on the instance itself
NextCt ==
    \/ DoConstruct
    \/ DoFromBanks
    \/ DoAddTemplate
    \/ DoRemove
    \/ DoExtend
    \/ DoCluster
    \/ DoWrite
    \/ DoReadInto
    \/ DoReadPkl

SpecCt == Init /\ [][NextCt]_vars

\* the calls that build an instance, save it and load it
NextArc ==
    \/ DoConstruct
    \/ DoFromBanks
    \/ DoRemove
    \/ DoCluster
    \/ DoWrite
    \/ DoReadFresh
    \/ DoReadInto

SpecArc == Init /\ [][NextArc]_vars

\* the calls that build an instance and take projections of it
NextSub ==
    \/ DoConstruct
    \/ DoRemove
    \/ DoCluster
    \/ DoGetSubset
    \/ DoSelectCluster

SpecSub == Init /\ [][NextSub]_vars

\* the calls that add templates to an instance and remove them
NextAdd ==
    \/ DoConstruct
    \/ DoAddTemplate
    \/ DoExtend
    \/ DoRemove

SpecAdd == Init /\ [][NextAdd]_vars

\* the calls that build an instance and narrow the waveforms of its templates
NextSel ==
    \/ DoConstruct
    \/ DoFromBanks
    \/ DoAddTemplate
    \/ DoSelectTemplateTraces

SpecSel == Init /\ [][NextSel]_vars

-----------------------------------------------------------------------------
(* Properties *)

Front(s) == SubSeq(s, 1, Len(s) - 1)

\* one row per template and no row without a template
TableMatchesIndex(inst) ==
    /\ NoDup(RowNames(inst.clusters))
    /\ Len(inst.clusters.rows) = Len(inst.templates)
    /\ IndexValues(inst.clusters) = Range(TemplateNames(inst))

\* C1: in every reachable state the row keys of the Membership Table are
\* exactly the template names of the Template Index, one row per template.
C1_RowsMatchIndex == TableMatchesIndex(ct)

\* C2: on an instance with unique names, add(T) of a template not yet present
\* appends the row of T, and remove(T) right after it drops that row and only
\* that row and takes T out of the sequence, so that the row set is again
\* what it was before the add.
C2_AddThenRemoveRestoresRows ==
    [][/\ (/\ last'.op = "add_template" /\ last'.err = "none"
           /\ TableMatchesIndex(ct)
           /\ last'.tpl.name \notin Range(TemplateNames(ct)))
          => /\ RowNames(ct'.clusters) = Append(RowNames(ct.clusters), last'.tpl.name)
             /\ ct'.templates = Append(ct.templates, last'.tpl)
       /\ (/\ last.op = "add_template" /\ last.err = "none"
           /\ TableMatchesIndex(ct)
           /\ ct.templates[Len(ct.templates)] = last.tpl
           /\ last'.op = "remove" /\ last'.tpl = last.tpl)
          => /\ last'.err = "none"
             /\ RowNames(ct'.clusters) = Front(RowNames(ct.clusters))
             /\ ct'.templates = Front(ct.templates)]_vars

\* the id_no recorded for a name in the table of an instance
IdNoOf(inst, nm) ==
    inst.clusters.rows[MinOf({i \in 1..Len(inst.clusters.rows) :
                                 inst.clusters.rows[i].name = nm})].cell["id_no"]

\* a selection of distinct names that all have a row and a template
PresentSelection(inst, names) ==
    /\ NoDup(names)
    /\ \A i \in 1..Len(names) :
         names[i] \in IndexValues(inst.clusters) /\ HasTemplateNamed(inst, names[i])

\* C3: with a Distance Matrix held, get_subset(names) of present names gives
\* a matrix of size len(names) whose entry [x,y] is the parent's entry at
\* [id_no of the x-th requested name, id_no of the y-th requested name].
C3_SubsetMatrixByIdNo ==
    (/\ last.op = "get_subset" /\ last.target = "ct"
     /\ ct.dist_mat.present
     /\ PresentSelection(ct, last.names))
    => /\ last.err = "none"
       /\ sub.dist_mat.present
       /\ Len(sub.dist_mat.m) = Len(last.names)
       /\ \A x, y \in 1..Len(last.names) :
            /\ Len(sub.dist_mat.m[x]) = Len(last.names)
            /\ sub.dist_mat.m[x][y] =
                 ct.dist_mat.m[IdNoOf(ct, last.names[x]) + 1][IdNoOf(ct, last.names[y]) + 1]

\* C4: get_subset(names) applied to the result of get_subset(names) succeeds
\* and returns an instance equal to that result: same templates, same table,
\* same parameter record, same matrix.
C4_SubsetIdempotent ==
    (/\ last.op = "get_subset" /\ last.target = "sub"
     /\ last.names = last.names0)
    => /\ last.err = "none"
       /\ sub2 = sub

CoercedEqual(saved, got) ==
    IF saved.t = "bool" THEN got = saved
    ELSE IF saved.t \in {"int", "float"} /\ saved.txt = "num"
    THEN got.t \in {"int", "float"} /\ got.txt = "num" /\ got.n = saved.n
    ELSE IF saved.t = "str" /\ saved.txt \notin {"True", "False", "num", "None", "nan"}
    THEN got = saved
    ELSE TRUE

RecordEquivalent(saved, got) ==
    /\ DOMAIN got = DOMAIN saved
    /\ \A mth \in DOMAIN saved :
         /\ DOMAIN got[mth] = DOMAIN saved[mth]
         /\ \A k \in DOMAIN saved[mth] : CoercedEqual(saved[mth][k], got[mth][k])

\* C6: a non-empty instance with a parameter record entry and a Distance
\* Matrix, saved and then loaded into a fresh instance, comes back with the
\* same table, an equivalent parameter record (booleans still booleans,
\* numbers still numbers, other strings still strings) and the same matrix.
C6_RoundTrip ==
    (/\ last.op = "read" /\ last.target = "fresh" /\ last.lost = {} /\ last.corrupt = {}
     /\ arc = Write(ct, heap[ct.kw])
     /\ Len(ct.templates) > 0
     /\ DOMAIN heap[ct.kw] # {}
     /\ ct.dist_mat.present)
    => /\ loaded.clusters = ct.clusters
       /\ RecordEquivalent(heap[ct.kw], heap[loaded.kw])
       /\ loaded.dist_mat = ct.dist_mat

\* C7: add_template without renaming, of a template whose name is already in
\* the Template Index, raises the duplicate-name error and changes nothing.
C7_DuplicateAddFails ==
    [][(/\ last'.op = "add_template" /\ ~last'.rename
        /\ isTemplate(last'.tpl)
        /\ last'.tpl.name \in Range(TemplateNames(ct)))
       => /\ last'.err = "AttributeError"
          /\ ct' = ct
          /\ heap' = heap]_vars

\* the text of a name before the first occurrence of the delimiter d
BaseOf(nm, d) ==
    LET hits == {i \in 1..Len(nm) : i + Len(d) - 1 <= Len(nm)
                                    /\ SubSeq(nm, i, i + Len(d) - 1) = d}
    IN IF hits = {} THEN nm ELSE SubSeq(nm, 1, MinOf(hits) - 1)

\* C8: add_template with renaming, of a template whose name collides, inserts
\* it under base+delimiter+k, a name not present before, with k the smallest
\* non-negative integer for which that name is not in use.
C8_RenameSmallestUnused ==
    [][(/\ last'.op = "add_template" /\ last'.rename
        /\ isTemplate(last'.tpl)
        /\ TableMatchesIndex(ct)
        /\ last'.tpl.name \in IndexValues(ct.clusters))
       => LET used == IndexValues(ct.clusters)
              base == BaseOf(last'.tpl.name, last'.delim)
              cand(k) == base \o last'.delim \o Str(k)
              nm == ct'.templates[Len(ct'.templates)].name
          IN /\ last'.err = "none"
             /\ Len(ct'.templates) = Len(ct.templates) + 1
             /\ nm \notin used
             /\ \E k \in 0..Cardinality(used) :
                  /\ nm = cand(k)
                  /\ \A j \in 0..(k - 1) : cand(j) \in used]_vars

\* C9: extend on a collection with an element that is not a template raises
\* TypeError, and an extend call that raises leaves the Template Index and
\* the Membership Table as they were.
C9_ExtendAllOrNothing ==
    [][(last'.op = "extend")
       => /\ (\E i \in 1..Len(last'.coll.items) : ~isTemplate(last'.coll.items[i]))
               => last'.err = "TypeError"
          /\ last'.err # "none"
               => (ct'.templates = ct.templates /\ ct'.clusters = ct.clusters)]_vars

\* C10: extend on k templates with pairwise distinct names not yet present,
\* given as a list or as a Tribe, adds each in order: k more templates and
\* one more row for each.
C10_ExtendAddsEach ==
    [][(/\ last'.op = "extend"
        /\ last'.coll.kind \in {"list", "Tribe"}
        /\ \A i \in 1..Len(last'.coll.items) :
             /\ isTemplate(last'.coll.items[i])
             /\ last'.coll.items[i].name \notin Range(TemplateNames(ct))
             /\ last'.coll.items[i].name \notin IndexValues(ct.clusters)
        /\ NoDup([i \in 1..Len(last'.coll.items) |-> last'.coll.items[i].name]))
       => /\ last'.err = "none"
          /\ ct'.templates = ct.templates \o last'.coll.items
          /\ RowNames(ct'.clusters) =
               RowNames(ct.clusters)
               \o [i \in 1..Len(last'.coll.items) |-> last'.coll.items[i].name]]_vars


\* C11: get_subset(names) on a selection of present names returns an instance
\* that holds exactly the selected templates, exactly the rows of the selected
\* names with every column and cell of the parent, and a Parameter Record
\* equal to the parent's; the parent is as it was before the call.
C11_SubsetProjection ==
    [][(/\ last'.op = "get_subset" /\ last'.target = "ct"
        /\ PresentSelection(ct, last'.names))
       => /\ last'.err = "none"
          /\ Len(sub'.templates) = Len(last'.names)
          /\ Range(sub'.templates) = {Select(ct, nm) : nm \in Range(last'.names)}
          /\ sub'.clusters = RowsIsin(ct.clusters, Range(last'.names))
          /\ heap'[sub'.kw] = heap[ct.kw]
          /\ ct' = ct /\ heap' = heap]_vars


\* C12: for a method that has a column and any group id,
\* select_cluster(method, group_id) returns a projection whose templates are
\* exactly those whose cell in the method's column equals group_id.
C12_SelectClusterExact ==
    [][(last'.op = "select_cluster" /\ last'.method \in ct.clusters.cols)
       => /\ last'.err = "none"
          /\ Range(TemplateNames(sub')) =
                {ct.clusters.rows[i].name : i \in
                    {j \in 1..Len(ct.clusters.rows) :
                        ct.clusters.rows[j].cell[last'.method] = last'.index}}
          /\ Range(sub'.templates) \subseteq Range(ct.templates)]_vars


\* C13: select_cluster with a method name that is not a column of the table
\* raises nothing: the call returns and the instance is unchanged.
C13_SelectUnknownMethodLogged ==
    [][(last'.op = "select_cluster" /\ last'.method \notin ct.clusters.cols)
       => /\ last'.err = "none"
          /\ ct' = ct /\ heap' = heap]_vars


\* errors that come from the interpreter or a delegate, not from a
\* deliberate check of the instance's state
IncidentalErrors ==
    {"UnboundLocalError", "KeyError", "IndexError", "TypeError",
     "NotImplementedError", "DelegateError"}

\* C14: _get_linkage and _cct_regroup on an instance on which correlation
\* clustering was never run fail with a state error, with or without a
\* Distance Matrix: they neither return normally nor fail with an unrelated
\* error.
C14_RethresholdNeedsCorrelationRun ==
    [][(/\ last'.op \in {"get_linkage", "regroup"}
        /\ "correlation_cluster" \notin ct.clusters.cols
        /\ ~HasKey(heap[ct.kw], "correlation_cluster"))
       => /\ last'.err # "none"
          /\ last'.err \notin IncidentalErrors]_vars


\* C15: when the linkage is recomputed, each of method, metric and
\* optimal_ordering reaches the linkage routine with the caller's override
\* when one is given, else with the value recorded for the correlation run
\* when one is recorded, else with the default.
C15_LinkageSettingPrecedence ==
    (last.op = "get_linkage" /\ last.err = "none" /\ last.z.present)
    => LET ckw == heap[ct.kw]["correlation_cluster"]
       IN \A k \in DOMAIN LinkageDefaults :
            last.z.args[k] = IF HasKey(last.kwargs, k) THEN last.kwargs[k]
                             ELSE IF HasKey(ckw, k) THEN ckw[k]
                             ELSE LinkageDefaults[k]


\* the threshold on record for the most recent correlation run
ThresholdOnRecord(inst, kwd, t) ==
    /\ "correlation_cluster" \in inst.clusters.cols
    /\ HasKey(kwd, "correlation_cluster")
    /\ HasKey(kwd["correlation_cluster"], "corr_thresh")
    /\ kwd["correlation_cluster"]["corr_thresh"] = PyFloat(t)

\* C16: _cct_regroup with the threshold on record returns the table's
\* correlation column as it is and makes no call to the linkage routine; a
\* second such call right after returns the same assignment.
C16_RegroupFastPath ==
    [][(last'.op = "regroup" /\ ThresholdOnRecord(ct, heap[ct.kw], last'.thresh))
       => /\ last'.err = "none"
          /\ last'.ret = Column(ct.clusters, "correlation_cluster")
          /\ last'.calls = 0
          /\ (last.op = "regroup" /\ last.err = "none" /\ last.thresh = last'.thresh)
             => last'.ret = last.ret]_vars


\* C17: on load the table file is merged all or nothing: when the names of
\* the templates loaded are not exactly the row names of the table file, no
\* row of the file enters the table; rows enter only when the sets are equal.
C17_TableMergeAllOrNothing ==
    [][(last'.op = "read" /\ last'.target \in {"ct", "fresh"} /\ last'.corrupt = {})
       => LET a == Lose(arc, last'.lost)
              before == IF last'.target = "ct" THEN ct ELSE NewInstance(2)
              after == IF last'.target = "ct" THEN ct' ELSE loaded'
              names == {nm \in Range(a.par) :
                           nm \notin Range(TemplateNames(before)) /\ nm \in DOMAIN a.ms}
          IN IF names = IndexValues(a.clusters)
             THEN after.clusters = ConcatRows(before.clusters, a.clusters)
             ELSE after.clusters = before.clusters]_vars


\* the positions of the archive's parameter file whose waveform file is lost
Unloadable(a, lost) == {i \in 1..Len(a.par) : a.par[i] \in lost}

\* C18: reading an archive of N templates in which exactly one template's
\* waveform file is missing raises nothing and adds exactly the other
\* templates of the archive that the instance does not hold yet; a fresh
\* instance ends with exactly the N-1 other templates.
C18_MissingWaveformTolerated ==
    [][(/\ last'.op = "read" /\ last'.target \in {"ct", "fresh"}
        /\ Cardinality(Unloadable(arc, last'.lost)) = 1)
       => LET before == IF last'.target = "ct" THEN ct ELSE NewInstance(2)
              after == IF last'.target = "ct" THEN ct' ELSE loaded'
              others == SelectSeq(arc.par, LAMBDA nm :
                            nm \notin last'.lost /\ nm \notin Range(TemplateNames(before)))
          IN /\ last'.err = "none"
             /\ after.templates =
                  before.templates \o [i \in 1..Len(others) |-> Tpl(others[i], arc.ms[others[i]])]
             /\ last'.target = "fresh" => Len(after.templates) = Len(arc.par) - 1]_vars

\* a fresh load of an archive of three templates with one waveform missing
\* has returned two templates
C18_Witness ==
    /\ last.op = "read" /\ last.target = "fresh" /\ last.err = "none"
    /\ Len(arc.par) = 3
    /\ Cardinality(Unloadable(arc, last.lost)) = 1
    /\ Len(loaded.templates) = 2


\* C19: a cluster run that completes leaves under its method exactly the
\* keyword parameters that were passed to it, keys and values, and leaves the
\* other entries alone; a run that fails leaves the Parameter Record as it
\* was, so a method whose runs all failed has no entry.
C19_RecordVerbatim ==
    [][last'.op = "cluster"
       => LET old == heap[ct.kw]
              new == heap'[ct.kw]
          IN IF last'.err = "none"
             THEN /\ DOMAIN new = (DOMAIN old) \cup {last'.method}
                  /\ new[last'.method] = last'.kwargs
                  /\ \A mth \in (DOMAIN old) \ {last'.method} : new[mth] = old[mth]
             ELSE new = old]_vars


\* C20: cluster raises when the instance holds fewer than 2 templates, for
\* any method name, and when the method name is not a supported one; in both
\* cases the table, the Parameter Record and the Distance Matrix are as they
\* were before the call.
C20_ClusterPreconditions ==
    [][(/\ last'.op = "cluster"
        /\ (Len(ct.templates) < 2 \/ last'.method \notin Methods))
       => /\ last'.err # "none"
          /\ ct'.clusters = ct.clusters
          /\ heap' = heap
          /\ ct'.dist_mat = ct.dist_mat
          /\ ct'.templates = ct.templates]_vars

\* an unsupported method name has been refused on an instance that holds two
\* or more templates, a Distance Matrix and a Parameter Record entry
C20_Witness ==
    /\ last.op = "cluster" /\ last.method \notin Methods /\ last.err = "ValueError"
    /\ Len(ct.templates) >= 2
    /\ ct.dist_mat.present
    /\ HasKey(heap[ct.kw], "correlation_cluster")


\* C21: get_subset takes a single name as a one-element selection, and
\* raises ValueError whenever a requested name has no row in the table; on
\* that failure no instance is returned and the parent is as it was.
\* select_cluster asks get_subset only for names read from the table, so it
\* never meets this failure.
C21_SubsetNormalizesAndRejects ==
    [][/\ (last'.op = "get_subset" /\ last'.target = "ct")
          => LET asked == IF last'.arg.kind = "str" THEN <<last'.arg.s>> ELSE last'.arg.v
             IN /\ last'.names = asked
                /\ (\E i \in 1..Len(asked) : asked[i] \notin IndexValues(ct.clusters))
                   => /\ last'.err = "ValueError"
                      /\ sub' = sub /\ ct' = ct /\ heap' = heap
                /\ (last'.arg.kind = "str" /\ last'.err = "none")
                   => TemplateNames(sub') = <<last'.arg.s>>
                /\ last'.err = "ValueError"
                   => \E i \in 1..Len(asked) : asked[i] \notin IndexValues(ct.clusters)
       /\ last'.op = "select_cluster" => last'.err # "ValueError"]_vars

\* a list with names that have a row and one that has none has been refused
C21_Witness ==
    /\ last.op = "get_subset" /\ last.target = "ct" /\ last.err = "ValueError"
    /\ Len(last.names) >= 3
    /\ \E i \in 1..Len(last.names) : last.names[i] \in IndexValues(ct.clusters)
    /\ \E i \in 1..Len(last.names) : last.names[i] \notin IndexValues(ct.clusters)


\* C22: after a successful correlation run, whether save_corrmat was not
\* given, given false or given true, dist_mat holds the matrix the delegate
\* produced for the template list of that run, and dist_mat.npy exists after
\* the call if and only if the caller passed save_corrmat as true.
C22_MatrixCapturedFileKeptOnRequest ==
    [][(/\ last'.op = "cluster" /\ last'.method = "correlation_cluster"
        /\ last'.err = "none")
       => LET tl == GetTemplateList(ct)
              given == HasKey(last'.kwargs, "save_corrmat")
          IN /\ ct'.dist_mat.present
             /\ Len(ct'.dist_mat.m) = Len(tl)
             /\ \A i, j \in 1..Len(tl) :
                  ct'.dist_mat.m[i][j] = DistOf(tl[i].st, tl[j].st)
             /\ npy_file' = (given /\ last'.kwargs["save_corrmat"] = PyTrue)]_vars

\* a run with save_corrmat=False has captured a matrix and left no file
C22_Witness ==
    /\ last.op = "cluster" /\ last.method = "correlation_cluster" /\ last.err = "none"
    /\ HasKey(last.kwargs, "save_corrmat") /\ last.kwargs["save_corrmat"] = PyFalse
    /\ ct.dist_mat.present /\ Len(ct.dist_mat.m) = 3
    /\ ~npy_file


\* C23: when read of a packed archive ends, normally or by an exception
\* raised while the extracted folder is read, its temporary directory is
\* gone; when a compressed write ends, normally or by an exception while
\* writing, its working directory is gone.
C23_WorkingDirectoriesRemoved ==
    [][/\ last'.op = "read" /\ last'.target \in {"ct", "fresh"}
          => dirs'.temp = dirs.temp
       /\ last'.op = "write" => ~dirs'.work]_vars


\* the correlation column after a run follows the ids that were submitted:
\* the cell of each row's template is the number of the delegate's group
\* that holds the (waveform, id_no) entry submitted for that row
CellsFollowIds(before, after, kwargs) ==
    LET tl == GetTemplateList(before)
        g == GroupOf([i \in 1..Len(tl) |-> tl[i].st],
                     CorrCut(DictPut(kwargs, "save_corrmat", PyTrue)))
    IN \A i \in 1..Len(tl) :
         \E j \in 1..Len(after.clusters.rows) :
            /\ after.clusters.rows[j].name = before.clusters.rows[i].name
            /\ after.clusters.rows[j].cell["correlation_cluster"] = g[i]

\* C24: after a successful correlation run, on the instance or on a
\* projection of it whose id_no values differ from the positions of its
\* templates, each template's cell in the correlation column is the 0-based
\* number of the delegate's group that holds the id submitted for it.
C24_GroupsFollowSubmittedIds ==
    [][/\ (/\ last'.op = "cluster" /\ last'.method = "correlation_cluster"
           /\ last'.err = "none")
          => CellsFollowIds(ct, ct', last'.kwargs)
       /\ (/\ last'.op = "sub.cluster" /\ last'.method = "correlation_cluster"
           /\ last'.err = "none")
          => CellsFollowIds(sub, sub', last'.kwargs)]_vars

\* C25: in every state reached by adding and removing templates, no two
\* rows of the clusters table carry the same id_no.
C25_IdNosUnique ==
    NoDup(IdNos(ct.clusters))

\* C26: a cluster, add_template or remove on a projection leaves the
\* parent's clusters table, cluster_kwargs and dist_mat as they were, and
\* a cluster, add_template or remove on the parent leaves the projection's
\* cluster_kwargs as it was.
C26_ProjectionIndependent ==
    [][/\ last'.op \in {"sub.cluster", "sub.add_template", "sub.remove"}
          => /\ ct'.clusters = ct.clusters
             /\ heap'[ct.kw] = heap[ct.kw]
             /\ ct'.dist_mat = ct.dist_mat
       /\ (last'.op \in {"cluster", "add_template", "remove"} /\ sub.kw # 0)
          => heap'[sub.kw] = heap[sub.kw]]_vars

\* C27: when select_template_traces(remove_empty_templates=True) returns,
\* wherever the templates with an empty selection stood in the index and
\* however many they were, no template of the index has an empty waveform
\* and every template whose selection is not empty is still in the index.
C27_EmptiesRemovedOthersKept ==
    [][(/\ last'.op = "select_template_traces" /\ last'.flag
        /\ last'.err = "none")
       => /\ \A t \in Range(ct'.templates) : t.st # EmptyStream
          /\ \A i \in 1..Len(ct.templates) :
                LET t1 == TracesSelected(ct.templates[i], last'.empties)
                IN t1.st # EmptyStream => t1 \in Range(ct'.templates)]_vars

\* two neighbouring templates lose their waveforms, the third keeps its own
C27_Witness ==
    /\ last.op = "select_template_traces" /\ last.flag /\ last.err = "none"
    /\ Len(last.before) = 3
    /\ last.before[1].st \in last.empties
    /\ last.before[2].st \in last.empties
    /\ last.before[3].st \notin last.empties
    /\ ct.templates = <<last.before[3]>>

=============================================================================
